---- MODULE Spec2Model ----
(***************************************************************************)
(* A model of ETL_json_to_postgres.py: the JSON record source, the column  *)
(* spec parser, the batch generator, the typed row mapper and main()'s     *)
(* connect / provision / write / commit sequence against a transactional   *)
(* destination.                                                            *)
(***************************************************************************)
EXTENDS Integers, Sequences, FiniteSets, TLC

VARIABLES
    run,        \* 1 for the first invocation of main(), 2 for the re-run
    pc,         \* position inside main()
    err,        \* "none", or the class of the exception that ended the run
    failed,     \* the statement that raised ("none" when nothing raised)
    args,       \* parse_args() result: mode, columns, upsert_key
    batch_size, \* args.batch_size
    file,       \* the content of args.input, until main() is past line 157
    records,    \* main()'s local `records`
    k,          \* index of the batch the loop is at
    conn,       \* "none" (get_conn not called), "open", "closed"
    committed,  \* the destination as other sessions see it
    txn,        \* the destination as this connection sees it
    dbBefore,   \* the destination when this run began (history)
    stmts,      \* statements this run executed successfully, in order (history)
    inp,        \* argument of the pure function under test
    out,        \* its result
    applied     \* whether the function has run

vars == << run, pc, err, failed, args, batch_size, file, records, k, conn,
           committed, txn, dbBefore, stmts, inp, out, applied >>

mainVars == << run, pc, err, failed, args, batch_size, file, records, k, conn,
               committed, txn, dbBefore, stmts >>

fnVars == << inp, out, applied >>

----------------------------------------------------------------------------
(* Bounds *)

MaxRecords == 3
MaxBatchSize == 2
MaxItems == 4
MaxLines == 2
MaxArrayLen == 2
MaxRows == 2
MaxRerunRecords == 1

----------------------------------------------------------------------------
(* Values *)

\* Python's None / SQL NULL.
NULL == 0

Values == {1, 2}

Range(s) == {s[i] : i \in DOMAIN s}

RECURSIVE Flatten(_)
Flatten(ss) == IF ss = <<>> THEN <<>> ELSE Head(ss) \o Flatten(Tail(ss))

SeqsUpTo(S, n) == UNION {[1..m -> S] : m \in 0..n}

\* dict.get(name, None)
Get(rec, name) == IF name \in DOMAIN rec THEN rec[name] ELSE NULL

----------------------------------------------------------------------------
(* chunked(iterable, size) *)

RECURSIVE chunked_loop(_, _, _, _, _)
chunked_loop(iterable, size, i, chunk, acc) ==
    IF i > Len(iterable)
    THEN IF chunk # <<>> THEN Append(acc, chunk) ELSE acc
    ELSE LET c == Append(chunk, iterable[i]) IN
         IF Len(c) >= size
         THEN chunked_loop(iterable, size, i + 1, <<>>, Append(acc, c))
         ELSE chunked_loop(iterable, size, i + 1, c, acc)

\* Faulty variant: the trailing `if chunk: yield chunk` is forgotten.
RECURSIVE chunked_no_tail_loop(_, _, _, _, _)
chunked_no_tail_loop(iterable, size, i, chunk, acc) ==
    IF i > Len(iterable)
    THEN acc
    ELSE LET c == Append(chunk, iterable[i]) IN
         IF Len(c) >= size
         THEN chunked_no_tail_loop(iterable, size, i + 1, <<>>, Append(acc, c))
         ELSE chunked_no_tail_loop(iterable, size, i + 1, c, acc)

chunked_no_tail(iterable, size) ==
    chunked_no_tail_loop(iterable, size, 1, <<>>, <<>>)

\* Faulty variant: `len(chunk) == size` in place of `len(chunk) >= size`.
RECURSIVE chunked_eq_loop(_, _, _, _, _)
chunked_eq_loop(iterable, size, i, chunk, acc) ==
    IF i > Len(iterable)
    THEN IF chunk # <<>> THEN Append(acc, chunk) ELSE acc
    ELSE LET c == Append(chunk, iterable[i]) IN
         IF Len(c) = size
         THEN chunked_eq_loop(iterable, size, i + 1, <<>>, Append(acc, c))
         ELSE chunked_eq_loop(iterable, size, i + 1, c, acc)

chunked_eq(iterable, size) == chunked_eq_loop(iterable, size, 1, <<>>, <<>>)

chunked(iterable, size) == chunked_loop(iterable, size, 1, <<>>, <<>>)

----------------------------------------------------------------------------
(* The input file.  A file is a sequence of lines; a line is blank          *)
(* (empty or whitespace only), one JSON object, or one JSON array of        *)
(* objects, the last two optionally preceded by whitespace on the line.     *)
(* The zero-byte file is <<>>.                                              *)

FieldNames == {"id", "name", "ingested_at"}

Dicts(F) == UNION {[S -> Values] : S \in SUBSET F}

EmptyDict == [n \in {} |-> NULL]

BlankLine == [kind |-> "blank", lead |-> FALSE, recs |-> <<>>]
ObjLine(d, lead) == [kind |-> "obj", lead |-> lead, recs |-> <<d>>]
ArrLine(ds, lead) == [kind |-> "arr", lead |-> lead, recs |-> ds]

\* The input once main() has its records and reads the file no more.
ClosedFile == <<[kind |-> "closed", lead |-> FALSE, recs |-> <<>>]>>

\* A parsed JSON value: a dict, or a list of dicts.
JDict(d) == [kind |-> "dict", d |-> d, items |-> <<>>]
JList(ds) == [kind |-> "list", d |-> EmptyDict, items |-> ds]

\* head = f.read(1): "" at end of file, " " for any whitespace character.
read1(f) ==
    IF f = <<>> THEN ""
    ELSE IF f[1].kind = "blank" \/ f[1].lead THEN " "
    ELSE IF f[1].kind = "arr" THEN "[" ELSE "{"

\* json.loads(line) of a stripped, non-blank line.
json_loads(line) ==
    IF line.kind = "arr" THEN JList(line.recs) ELSE JDict(line.recs[1])

\* json.load(f): the whole file must hold exactly one JSON value.
json_load(f) ==
    LET nb == SelectSeq(f, LAMBDA l : l.kind # "blank") IN
    IF Len(nb) = 1
    THEN [ok |-> TRUE, value |-> json_loads(nb[1])]
    ELSE [ok |-> FALSE, value |-> JList(<<>>)]

load_json_records(f) ==
    LET head == read1(f) IN
    IF head = "" THEN [ok |-> TRUE, recs |-> <<>>]
    ELSE IF head = "["
    THEN LET data == json_load(f) IN
         IF ~data.ok THEN [ok |-> FALSE, recs |-> <<>>]
         ELSE IF data.value.kind = "dict"
              THEN [ok |-> TRUE, recs |-> <<data.value>>]
              ELSE [ok |-> TRUE,
                    recs |-> [i \in DOMAIN data.value.items |->
                                  JDict(data.value.items[i])]]
    ELSE LET nb == SelectSeq(f, LAMBDA l : l.kind # "blank") IN
         [ok |-> TRUE, recs |-> [i \in DOMAIN nb |-> json_loads(nb[i])]]

----------------------------------------------------------------------------
(* parse_typed_columns(specs).  A column spec string is a sequence of       *)
(* tokens: ":" , " " (whitespace) or a word.                                *)

RECURSIVE lstrip(_)
lstrip(s) == IF s # <<>> /\ Head(s) = " " THEN lstrip(Tail(s)) ELSE s

RECURSIVE rstrip(_)
rstrip(s) ==
    IF s # <<>> /\ s[Len(s)] = " " THEN rstrip(SubSeq(s, 1, Len(s) - 1)) ELSE s

strip(s) == rstrip(lstrip(s))

RECURSIVE join(_)
join(s) == IF s = <<>> THEN "" ELSE Head(s) \o join(Tail(s))

\* spec.split(":", 1)
split_colon(s) ==
    LET i == CHOOSE j \in DOMAIN s :
                 s[j] = ":" /\ \A h \in 1..(j - 1) : s[h] # ":" IN
    << SubSeq(s, 1, i - 1), SubSeq(s, i + 1, Len(s)) >>

parse_spec(spec) ==
    IF ":" \notin Range(spec) THEN [ok |-> FALSE, col |-> <<"", "">>]
    ELSE LET parts == split_colon(spec)
             name == join(strip(parts[1]))
             pgtype == join(strip(parts[2])) IN
         IF name = "" \/ pgtype = "" THEN [ok |-> FALSE, col |-> <<"", "">>]
         ELSE [ok |-> TRUE, col |-> <<name, pgtype>>]

parse_typed_columns(specs) ==
    IF \E i \in DOMAIN specs : ~parse_spec(specs[i]).ok
    THEN [ok |-> FALSE, cols |-> <<>>]
    ELSE [ok |-> TRUE, cols |-> [i \in DOMAIN specs |-> parse_spec(specs[i]).col]]

col_names(cols) == [i \in DOMAIN cols |-> cols[i][1]]

----------------------------------------------------------------------------
(* main() lines 159-161 and rows_for_typed(records, cols) *)

\* datetime.now(timezone.utc) of a run: one value per run, none of Values.
Now(r) == 10 + r

\* r.setdefault("ingested_at", now)
setdefault(d, now) ==
    [n \in DOMAIN d \cup {"ingested_at"} |->
        IF n \in DOMAIN d THEN d[n] ELSE now]

\* Faulty variant: rows built in reverse column order.
rows_for_typed_reversed(recs, cols) ==
    [i \in DOMAIN recs |->
        [j \in DOMAIN cols |->
            LET c == cols[Len(cols) + 1 - j] IN
            IF c[1] = "ingested_at" THEN NULL ELSE Get(recs[i], c[1])]]

rows_for_typed(recs, cols) ==
    [i \in DOMAIN recs |->
        [j \in DOMAIN cols |->
            IF cols[j][1] = "ingested_at" THEN NULL
            ELSE Get(recs[i], cols[j][1])]]

----------------------------------------------------------------------------
(* The destination: one table, seen through a transaction.  A table is      *)
(* its column names in order, the columns with DEFAULT NOW(), the columns   *)
(* under a uniqueness constraint, and its rows (column name -> value).      *)

NoTable ==
    [exists |-> FALSE, cols |-> <<>>, dflt |-> {}, uniq |-> {}, rows |-> <<>>]

\* NOW() inside the transaction of batch b of run r: none of Values, Now(r).
DbNow(r, b) == 100 * r + b

\* Faulty variant: the connection is opened with autocommit=True.
autocommit_on == TRUE

\* get_conn(): autocommit=False
autocommit == FALSE

\* What other sessions see after a statement left this session seeing t.
visible_after_execute(c, t) == IF autocommit THEN t ELSE c

\* Faulty variant: conn.commit() is missing from the batch loop.
conn_commit_missing(c, t) == c

\* conn.commit()
conn_commit(c, t) == t

\* ensure_jsonb_table: CREATE TABLE IF NOT EXISTS with one payload column.
create_jsonb_table(db) ==
    IF db.exists THEN db
    ELSE [exists |-> TRUE, cols |-> <<"payload">>, dflt |-> {}, uniq |-> {},
          rows |-> <<>>]

\* ensure_typed_table: col_defs, with the implicit ingested_at appended.
typed_col_defs(cols) ==
    IF "ingested_at" \notin Range(col_names(cols))
    THEN Append(col_names(cols), "ingested_at")
    ELSE col_names(cols)

\* ensure_typed_table: CREATE TABLE IF NOT EXISTS table (col_defs).
create_typed_table(db, cols) ==
    IF db.exists THEN db
    ELSE [exists |-> TRUE, cols |-> typed_col_defs(cols),
          dflt |-> IF "ingested_at" \notin Range(col_names(cols))
                   THEN {"ingested_at"} ELSE {},
          uniq |-> {}, rows |-> <<>>]

\* ensure_typed_table: `if upsert_key:`
wants_constraint(cols, upsert_key) == upsert_key # ""

\* The uniqueness constraint on the key column, created if absent.
add_unique(db, key) ==
    IF ~db.exists \/ key \notin Range(db.cols) THEN [ok |-> FALSE, db |-> db]
    ELSE IF \E i, j \in DOMAIN db.rows :
                i # j /\ db.rows[i][key] # NULL /\ db.rows[i][key] = db.rows[j][key]
    THEN [ok |-> FALSE, db |-> db]
    ELSE [ok |-> TRUE, db |-> [db EXCEPT !.uniq = @ \cup {key}]]

\* The row an INSERT of vals into the columns `names` builds.
new_row(db, names, vals, now) ==
    [c \in Range(db.cols) |->
        IF c \in Range(names)
        THEN vals[CHOOSE j \in DOMAIN names : names[j] = c]
        ELSE IF c \in db.dflt THEN now ELSE NULL]

conflicts(db, row, on) ==
    {i \in DOMAIN db.rows :
        \E u \in on : row[u] # NULL /\ db.rows[i][u] = row[u]}

\* INSERT INTO table (names) VALUES (vals)
insert_row(db, names, vals, now) ==
    IF ~db.exists \/ ~(Range(names) \subseteq Range(db.cols))
    THEN [ok |-> FALSE, db |-> db]
    ELSE LET row == new_row(db, names, vals, now) IN
         IF conflicts(db, row, db.uniq) # {} THEN [ok |-> FALSE, db |-> db]
         ELSE [ok |-> TRUE, db |-> [db EXCEPT !.rows = Append(@, row)]]

\* INSERT ... ON CONFLICT (key) DO UPDATE SET c = EXCLUDED.c for c in excl
upsert_row(db, names, vals, key, excl, now) ==
    IF ~db.exists \/ ~(Range(names) \subseteq Range(db.cols))
       \/ key \notin db.uniq \/ excl = <<>>
    THEN [ok |-> FALSE, db |-> db]
    ELSE LET row == new_row(db, names, vals, now)
             hit == conflicts(db, row, {key}) IN
         IF hit = {} THEN insert_row(db, names, vals, now)
         ELSE [ok |-> TRUE,
               db |-> [db EXCEPT !.rows =
                        [i \in DOMAIN @ |->
                            IF i \in hit
                            THEN [c \in DOMAIN @[i] |->
                                    IF c \in Range(excl) THEN row[c] ELSE @[i][c]]
                            ELSE @[i]]]]

\* Faulty variant: the key column itself is left in the SET list and the last
\* declared column is left out of it.
excluded_cols_short(names, upsert_key) ==
    SubSeq(names, 1, Len(names) - 1)

\* insert_typed: [c for c in col_names if c != upsert_key]
excluded_cols(names, upsert_key) ==
    SelectSeq(names, LAMBDA c : c # upsert_key)

\* insert_typed: `if upsert_key and upsert_key in col_names`
use_upsert(names, upsert_key) ==
    upsert_key # "" /\ upsert_key \in Range(names)

\* cur.executemany for the typed statements, row by row.
RECURSIVE executemany_typed(_, _, _, _, _, _)
executemany_typed(db, names, rows, upsert_key, i, now) ==
    IF i > Len(rows) THEN [ok |-> TRUE, db |-> db]
    ELSE LET r == IF use_upsert(names, upsert_key)
                  THEN upsert_row(db, names, rows[i], upsert_key,
                                  excluded_cols(names, upsert_key), now)
                  ELSE insert_row(db, names, rows[i], now) IN
         IF ~r.ok THEN [ok |-> FALSE, db |-> db]
         ELSE executemany_typed(r.db, names, rows, upsert_key, i + 1, now)

insert_typed(db, cols, recs, upsert_key, now) ==
    executemany_typed(db, col_names(cols), rows_for_typed(recs, cols),
                      upsert_key, 1, now)

\* json.dumps(r) sent through to_jsonb(%s::json): the payload is the record.
RECURSIVE insert_jsonb_from(_, _, _)
insert_jsonb_from(db, recs, i) ==
    IF i > Len(recs) THEN [ok |-> TRUE, db |-> db]
    ELSE LET r == insert_row(db, <<"payload">>, <<recs[i]>>, NULL) IN
         IF ~r.ok THEN [ok |-> FALSE, db |-> db]
         ELSE insert_jsonb_from(r.db, recs, i + 1)

insert_jsonb(db, recs) == insert_jsonb_from(db, recs, 1)

----------------------------------------------------------------------------
(* Inputs of a run *)

IdInt == <<"id", ":", "int">>
NameText == <<" ", "name", " ", ":", " ", "text">>
TsText == <<"ingested_at", ":", "timestamptz">>

\* --columns values.
GoodColumns == <<IdInt, NameText>>
OwnTsColumns == <<IdInt, NameText, TsText>>
BadColumns == { <<>>, <<IdInt, <<"name">>>>, <<<<":", "int">>>>,
                <<<<"id", ":", " ">>>> }

\* --upsert-key values; "" is the default None.
UpsertKeys == {"", "id", "zzz", "ingested_at"}

Configs ==
    {[mode |-> "jsonb", columns |-> <<>>, upsert_key |-> ""]}
    \cup [mode : {"typed"}, columns : {GoodColumns}, upsert_key : UpsertKeys]
    \cup [mode : {"typed"}, columns : {OwnTsColumns}, upsert_key : {"id"}]
    \cup [mode : {"typed"}, columns : BadColumns, upsert_key : {"", "id"}]

\* --batch-size values of a run (chunked is checked for sizes <= 0 apart).
BatchSizes == 1..MaxBatchSize

RunRecords ==
    { [id |-> 1, name |-> 1], [id |-> 1, name |-> 2],
      [id |-> 2, name |-> 1], [name |-> 2] }

\* The records of the re-run: a key the first run may have written with
\* another name, a key it may have written with this name, and no key.
RerunRecords ==
    { [id |-> 1, name |-> 2], [id |-> 2, name |-> 1], [name |-> 2] }

NdjsonFile(ds) == [i \in DOMAIN ds |-> ObjLine(ds[i], FALSE)]

InputFiles(R, n) ==
    {NdjsonFile(ds) : ds \in SeqsUpTo(R, n)}
    \cup {<<ArrLine(ds, FALSE)>> : ds \in SeqsUpTo(R, n)}
    \cup { <<BlankLine>>, <<BlankLine, ArrLine(<<>>, FALSE)>>,
           <<ArrLine(<<>>, TRUE)>>,
           <<ArrLine(<<>>, FALSE), ArrLine(<<>>, FALSE)>> }

----------------------------------------------------------------------------
(* main() *)

\* Faulty variant: the empty-input guard is missing.
no_records_unchecked(recs) == FALSE

\* main: `if not records:`
no_records(recs) == recs = <<>>

Cols == parse_typed_columns(args.columns).cols

Batches == chunked(records, batch_size)

Init ==
    /\ run = 1
    /\ pc = "load"
    /\ err = "none"
    /\ failed = "none"
    /\ args \in Configs
    /\ batch_size \in BatchSizes
    /\ file \in InputFiles(RunRecords, MaxRecords)
    /\ records = <<>>
    /\ k = 0
    /\ conn = "none"
    /\ committed = NoTable
    /\ txn = NoTable
    /\ dbBefore = NoTable
    /\ stmts = <<>>
    /\ inp = <<>>
    /\ out = <<>>
    /\ applied = FALSE

\* An exception leaves main() before the connection exists.
Raise(class, stmt) ==
    /\ pc' = "error"
    /\ err' = class
    /\ failed' = stmt
    /\ UNCHANGED << run, args, batch_size, file, records, k, conn, committed,
                    txn, dbBefore, stmts, inp, out, applied >>

\* An exception leaves `with get_conn() as conn`: rollback, close.
\* c is what the statements of this step already made visible.
Abort(class, stmt, c) ==
    /\ pc' = "error"
    /\ err' = class
    /\ failed' = stmt
    /\ committed' = c
    /\ txn' = c
    /\ conn' = "closed"
    /\ UNCHANGED << run, args, batch_size, file, records, k, dbBefore, stmts,
                    inp, out, applied >>

\* main lines 153-161: load the records, stop on none, stamp ingested_at.
Load ==
    /\ pc = "load"
    /\ LET res == load_json_records(file) IN
       IF ~res.ok THEN Raise("input", "json.load")
       ELSE IF no_records(res.recs)
       THEN /\ pc' = "done"
            /\ UNCHANGED << run, err, failed, args, batch_size, file, records,
                            k, conn, committed, txn, dbBefore, stmts, inp, out,
                            applied >>
       ELSE IF \E i \in DOMAIN res.recs : res.recs[i].kind # "dict"
       THEN Raise("input", "setdefault")
       ELSE /\ records' = [i \in DOMAIN res.recs |->
                              setdefault(res.recs[i].d, Now(run))]
            /\ file' = ClosedFile
            /\ pc' = "connect"
            /\ UNCHANGED << run, err, failed, args, batch_size, k, conn,
                            committed, txn, dbBefore, stmts, inp, out, applied >>

\* main line 163: get_conn()
Connect ==
    /\ pc = "connect"
    /\ \E ok \in BOOLEAN :
        IF ok
        THEN /\ conn' = "open"
             /\ pc' = "provision"
             /\ UNCHANGED << run, err, failed, args, batch_size, file, records,
                             k, committed, txn, dbBefore, stmts, inp, out,
                             applied >>
        ELSE /\ conn' = "refused"
             /\ pc' = "error"
             /\ err' = "connect"
             /\ failed' = "get_conn"
             /\ UNCHANGED << run, args, batch_size, file, records, k, committed,
                             txn, dbBefore, stmts, inp, out, applied >>

\* Provisioning is done: `for batch in chunked(records, args.batch_size)`
\* takes the first batch, or falls through when there is none.
EnterLoop(t, log) ==
    /\ txn' = t
    /\ committed' = visible_after_execute(committed, t)
    /\ stmts' = log
    /\ IF Batches = <<>>
       THEN k' = 0 /\ pc' = "finish"
       ELSE k' = 1 /\ pc' = "insert"
    /\ UNCHANGED << run, err, failed, args, batch_size, file, records, conn,
                    dbBefore, inp, out, applied >>

\* main lines 165-166: ensure_jsonb_table
ProvisionJsonb ==
    /\ pc = "provision"
    /\ args.mode = "jsonb"
    /\ \E ok \in BOOLEAN :
        IF ok
        THEN EnterLoop(create_jsonb_table(txn), Append(stmts, "create_table"))
        ELSE Abort("provision", "create_table", committed)

\* main lines 172-175: parse_typed_columns, ensure_typed_table
ProvisionTyped ==
    /\ pc = "provision"
    /\ args.mode = "typed"
    /\ LET parsed == parse_typed_columns(args.columns) IN
       IF ~parsed.ok THEN Abort("config", "parse_typed_columns", committed)
       ELSE IF parsed.cols = <<>> THEN Abort("config", "no_columns", committed)
       ELSE \E ok1, ok2 \in BOOLEAN :
            LET t1 == create_typed_table(txn, parsed.cols)
                c1 == visible_after_execute(committed, t1)
                u  == add_unique(t1, args.upsert_key) IN
            IF ~ok1 THEN Abort("provision", "create_table", committed)
            ELSE IF ~wants_constraint(parsed.cols, args.upsert_key)
            THEN EnterLoop(t1, Append(stmts, "create_table"))
            ELSE IF ok2 /\ u.ok
            THEN EnterLoop(u.db, stmts \o <<"create_table", "add_unique">>)
            ELSE Abort("provision", "add_unique", c1)

\* main lines 167-168 / 176-177: the next batch is written.
Insert ==
    /\ pc = "insert"
    /\ \E ok \in BOOLEAN :
        LET batch == Batches[k]
            r == IF args.mode = "jsonb" THEN insert_jsonb(txn, batch)
                 ELSE insert_typed(txn, Cols, batch, args.upsert_key,
                                   DbNow(run, k)) IN
        IF ok /\ r.ok
        THEN /\ txn' = r.db
             /\ committed' = visible_after_execute(committed, r.db)
             /\ stmts' = Append(stmts, "insert")
             /\ pc' = "commit"
             /\ UNCHANGED << run, err, failed, args, batch_size, file, records,
                             k, conn, dbBefore, inp, out, applied >>
        ELSE Abort("write", "insert", committed)

\* main lines 169 / 178: conn.commit(), then the next batch or the end.
Commit ==
    /\ pc = "commit"
    /\ \E ok \in BOOLEAN :
        IF ok
        THEN /\ committed' = conn_commit(committed, txn)
             /\ stmts' = Append(stmts, "commit")
             /\ IF k < Len(Batches)
                THEN k' = k + 1 /\ pc' = "insert"
                ELSE k' = k /\ pc' = "finish"
             /\ UNCHANGED << run, err, failed, args, batch_size, file, records,
                             conn, txn, dbBefore, inp, out, applied >>
        ELSE Abort("commit", "commit", committed)

\* main lines 170 / 179 and the end of the with block: commit, close.
Finish ==
    /\ pc = "finish"
    /\ committed' = txn
    /\ conn' = "closed"
    /\ pc' = "done"
    /\ UNCHANGED << run, err, failed, args, batch_size, file, records, k, txn,
                    dbBefore, stmts, inp, out, applied >>

\* The process ends: its locals are gone, the destination stays.
Exit ==
    /\ pc \in {"done", "error"}
    /\ run = 1
    /\ pc' = "exited"
    /\ err' = "none"
    /\ failed' = "none"
    /\ batch_size' = 0
    /\ file' = ClosedFile
    /\ records' = <<>>
    /\ k' = 0
    /\ conn' = "none"
    /\ txn' = committed
    /\ dbBefore' = committed
    /\ stmts' = <<>>
    /\ UNCHANGED << run, args, committed, inp, out, applied >>

\* The program is run again on the same table with the same options.
Rerun ==
    /\ pc = "exited"
    /\ run' = 2
    /\ pc' = "load"
    /\ batch_size' \in BatchSizes
    /\ file' \in InputFiles(RerunRecords, MaxRerunRecords)
    /\ UNCHANGED << err, failed, args, records, k, conn, committed, txn,
                    dbBefore, stmts, inp, out, applied >>

Next ==
    \/ Load
    \/ Connect
    \/ ProvisionJsonb
    \/ ProvisionTyped
    \/ Insert
    \/ Commit
    \/ Finish
    \/ Exit
    \/ Rerun

Spec == Init /\ [][Next]_vars

----------------------------------------------------------------------------
(* Specifications of the pure functions: the argument is drawn in the       *)
(* initial state and one action applies the function.                       *)

MainIdle ==
    /\ run = 0
    /\ pc = "idle"
    /\ err = "none"
    /\ failed = "none"
    /\ args = [mode |-> "jsonb", columns |-> <<>>, upsert_key |-> ""]
    /\ batch_size = 0
    /\ file = ClosedFile
    /\ records = <<>>
    /\ k = 0
    /\ conn = "none"
    /\ committed = NoTable
    /\ txn = NoTable
    /\ dbBefore = NoTable
    /\ stmts = <<>>

ChunkSizes == (0 - MaxBatchSize - 1)..(MaxBatchSize + 1)

InitChunk ==
    /\ MainIdle
    /\ inp \in [iterable : SeqsUpTo(Values, MaxItems), size : ChunkSizes]
    /\ out = <<>>
    /\ applied = FALSE

ApplyChunked ==
    /\ ~applied
    /\ out' = chunked(inp.iterable, inp.size)
    /\ applied' = TRUE
    /\ UNCHANGED << mainVars, inp >>

SpecChunk == InitChunk /\ [][ApplyChunked]_vars

LoadLines ==
    {BlankLine}
    \cup {ObjLine(d, l) : d \in Dicts({"id"}), l \in BOOLEAN}
    \cup {ArrLine(ds, l) : ds \in SeqsUpTo(Dicts({"id"}), MaxArrayLen),
                           l \in BOOLEAN}

InitLoad ==
    /\ MainIdle
    /\ inp \in SeqsUpTo(LoadLines, MaxLines)
    /\ out = <<>>
    /\ applied = FALSE

ApplyLoad ==
    /\ ~applied
    /\ out' = load_json_records(inp)
    /\ applied' = TRUE
    /\ UNCHANGED << mainVars, inp >>

SpecLoad == InitLoad /\ [][ApplyLoad]_vars

ColumnLists ==
    { parse_typed_columns(GoodColumns).cols,
      parse_typed_columns(OwnTsColumns).cols,
      <<<<"ingested_at", "timestamptz">>>>,
      <<<<"name", "text">>, <<"id", "int">>>>,
      <<<<"id", "int">>, <<"zzz", "text">>>> }

InitRows ==
    /\ MainIdle
    /\ inp \in [records : SeqsUpTo(Dicts(FieldNames), MaxRows),
                cols : ColumnLists]
    /\ out = <<>>
    /\ applied = FALSE

\* The records as main() hands them over: stamped at lines 159-161.
Stamped == [i \in DOMAIN inp.records |-> setdefault(inp.records[i], Now(run))]

ApplyRows ==
    /\ ~applied
    /\ out' = rows_for_typed(Stamped, inp.cols)
    /\ applied' = TRUE
    /\ UNCHANGED << mainVars, inp >>

SpecRows == InitRows /\ [][ApplyRows]_vars

----------------------------------------------------------------------------
(* Properties *)

Count(seq, x) == Cardinality({i \in DOMAIN seq : seq[i] = x})

CeilDiv(n, d) == (n + d - 1) \div d

\* The destination this run's provisioning produces from db.
Provisioned(db) ==
    IF args.mode = "jsonb" THEN create_jsonb_table(db)
    ELSE LET t1 == create_typed_table(db, Cols) IN
         IF args.upsert_key # "" THEN add_unique(t1, args.upsert_key).db
         ELSE t1

\* The destination with provisioning and batches 1..j of this run applied.
RECURSIVE AfterBatches(_)
AfterBatches(j) ==
    IF j = 0 THEN Provisioned(dbBefore)
    ELSE IF args.mode = "jsonb"
         THEN insert_jsonb(AfterBatches(j - 1), Batches[j]).db
         ELSE insert_typed(AfterBatches(j - 1), Cols, Batches[j],
                           args.upsert_key, DbNow(run, j)).db

\* What must be durable once j batches of this run are committed.
DurableAfter(j) == IF j = 0 THEN dbBefore ELSE AfterBatches(j)

InLoop == pc \in {"insert", "commit"}

BatchFailed == pc = "error" /\ failed \in {"insert", "commit"}

\* C1: batches are written and committed one after another in input order;
\* a write starts only when every earlier batch is committed; when the write
\* or the commit of batch k fails, exactly batches 1..k-1 are durable, nothing
\* of batch k or later is, no further statement ran, and the run is in error.
C1_BatchesSerial ==
    /\ \A i \in DOMAIN stmts :
          stmts[i] = "commit" => i > 1 /\ stmts[i - 1] = "insert"
    /\ \A i \in DOMAIN stmts :
          (stmts[i] = "insert" /\ \E h \in 1..(i - 1) : stmts[h] = "insert")
              => stmts[i - 1] = "commit"
    /\ InLoop =>
          /\ k \in 1..Len(Batches)
          /\ committed = DurableAfter(k - 1)
          /\ Count(stmts, "commit") = k - 1
          /\ Count(stmts, "insert") = IF pc = "insert" THEN k - 1 ELSE k
          /\ pc = "commit" => txn = AfterBatches(k)
    /\ BatchFailed =>
          /\ k \in 1..Len(Batches)
          /\ committed = DurableAfter(k - 1)
          /\ txn = committed
          /\ err \in {"write", "commit"}
          /\ conn = "closed"
          /\ Count(stmts, "commit") = k - 1
          /\ Count(stmts, "insert") = IF failed = "insert" THEN k - 1 ELSE k
    /\ (pc \in {"finish", "done"} /\ records # <<>>) =>
          /\ committed = AfterBatches(Len(Batches))
          /\ Count(stmts, "commit") = Len(Batches)

C1_Witness ==
    /\ BatchFailed
    /\ failed = "commit"
    /\ k = 2
    /\ Len(Batches) = 3
    /\ Len(committed.rows) = Len(dbBefore.rows) + 1
    /\ committed.rows # dbBefore.rows

\* C3 (as claimed): a run that ends with a configuration error never called
\* get_conn.
C3_ConfigErrorBeforeConnect ==
    (pc = "error" /\ err = "config") => conn = "none"

UpsertRun ==
    /\ args.mode = "typed"
    /\ pc = "done"
    /\ records # <<>>
    /\ use_upsert(col_names(Cols), args.upsert_key)

KeyOf(row) == Get(row, args.upsert_key)

KeysWritten == {KeyOf(records[i]) : i \in DOMAIN records} \ {NULL}

LastWith(v) ==
    CHOOSE i \in DOMAIN records :
        /\ KeyOf(records[i]) = v
        /\ \A j \in DOMAIN records : KeyOf(records[j]) = v => j <= i

\* The value of declared column c in the row written for record d.
Written(d, c) ==
    LET names == col_names(Cols) IN
    rows_for_typed(<<d>>, Cols)[1][CHOOSE j \in DOMAIN names : names[j] = c]

UndeclaredKey ==
    /\ args.mode = "typed"
    /\ parse_typed_columns(args.columns).ok
    /\ Cols # <<>>
    /\ args.upsert_key # ""
    /\ args.upsert_key \notin Range(col_names(Cols))

\* C6 (as claimed): with an upsert key that is not a declared column the run
\* provisions as the run without a key does (no uniqueness constraint is
\* asked for) and never fails on the key.
C6_UndeclaredKeyIsNoKey ==
    UndeclaredKey =>
        /\ "add_unique" \notin Range(stmts)
        /\ failed # "add_unique"

IsEmptyInput(f) ==
    LET nb == SelectSeq(f, LAMBDA l : l.kind # "blank") IN
    \/ nb = <<>>
    \/ f # <<>> /\ f[1] = ArrLine(<<>>, FALSE) /\ Len(nb) = 1

\* C8: a run whose input yields no records (zero bytes, whitespace only, an
\* empty array) ends without error, without a connection, without any
\* statement, and leaves the destination as it was.
C8_EmptyInputNoWrites ==
    /\ (pc \in {"done", "error"} /\ file # ClosedFile /\ IsEmptyInput(file))
          => (pc = "done" /\ records = <<>>)
    /\ (pc = "done" /\ records = <<>>) =>
          /\ err = "none"
          /\ conn = "none"
          /\ stmts = <<>>
          /\ committed = dbBefore
          /\ txn = dbBefore

C8_Witness ==
    /\ pc = "done"
    /\ records = <<>>
    /\ file = <<BlankLine, ArrLine(<<>>, FALSE)>> \/ file = <<BlankLine>>
    /\ run = 2
    /\ committed.rows # <<>>

\* C9: provisioning is not committed on its own: when the first batch is
\* about to be written the table exists for this connection only, no commit
\* was issued, and a failure of provisioning or of the first batch leaves the
\* destination as it was before the run.
C9_ProvisioningNotCommitted ==
    /\ (InLoop /\ k = 1) =>
          /\ "commit" \notin Range(stmts)
          /\ committed = dbBefore
          /\ txn.exists
    /\ (pc = "error" /\ conn = "closed" /\ k <= 1) => committed = dbBefore

C9_Witness ==
    /\ pc = "error"
    /\ failed = "insert"
    /\ k = 1
    /\ "add_unique" \in Range(stmts)
    /\ ~committed.exists

\* C2: for a size >= 1, chunked yields ceil(N / size) batches, each full
\* except possibly the last, which is not empty, and their concatenation is
\* the input.
C2_ChunkedPartitions ==
    (applied /\ inp.size >= 1) =>
        /\ Len(out) = CeilDiv(Len(inp.iterable), inp.size)
        /\ \A i \in DOMAIN out :
              /\ Len(out[i]) >= 1
              /\ Len(out[i]) <= inp.size
              /\ i < Len(out) => Len(out[i]) = inp.size
        /\ Flatten(out) = inp.iterable

C2_Witness ==
    /\ applied
    /\ inp.size = 2
    /\ Len(inp.iterable) = 3
    /\ Len(out) = 2
    /\ Len(out[2]) = 1

\* C10: for every size chunked ends, yields no empty batch and keeps the
\* input order; for a size <= 0 it yields one batch per record.
C10_ChunkedAnySize ==
    applied =>
        /\ \A i \in DOMAIN out : out[i] # <<>>
        /\ Flatten(out) = inp.iterable
        /\ inp.size <= 0 =>
              out = [i \in DOMAIN inp.iterable |-> <<inp.iterable[i]>>]

C10_Witness ==
    /\ applied
    /\ inp.size < 0
    /\ Len(inp.iterable) = 3
    /\ Len(out) = 3

NonBlank(f) == SelectSeq(f, LAMBDA l : l.kind # "blank")

\* A file that holds one JSON array and whitespace around it.
IsArrayEncoding(f) == Len(NonBlank(f)) = 1 /\ NonBlank(f)[1].kind = "arr"

\* A file that holds one JSON object per non-blank line.
IsNdjsonEncoding(f) == \A i \in DOMAIN f : f[i].kind \in {"blank", "obj"}

\* C7 (as claimed): every array encoding of a record sequence, whitespace
\* before it or not, and every NDJSON encoding of it load as that sequence.
C7_EncodingsAgree ==
    applied =>
        /\ IsArrayEncoding(inp) =>
              /\ out.ok
              /\ out.recs = [i \in DOMAIN NonBlank(inp)[1].recs |->
                                JDict(NonBlank(inp)[1].recs[i])]
        /\ IsNdjsonEncoding(inp) =>
              /\ out.ok
              /\ out.recs = [i \in DOMAIN NonBlank(inp) |->
                                JDict(NonBlank(inp)[i].recs[1])]

====
